---- MODULE Spec2Model ----
(***************************************************************************)
(* Number guessing game (src/number_guessing_game.py): the round loop of   *)
(* play_round, the highscore store (load_highscores, save_highscores,      *)
(* update_highscore, reset_highscores) and the menu loop that wires them.  *)
(***************************************************************************)
EXTENDS Integers, Sequences, FiniteSets, TLC

VARIABLES
    pc,        \* where the process is: "off" (not launched), "menu", "loop" (line 164), "input"
               \* (line 175), "returned" (line 243), "pause_round" (250), "pause_help" (255),
               \* "pause_scores" (260), "exited", "crashed" (uncaught exception), "api"
    file,      \* the content of HIGHSCORE_FILE on disk
    scores,    \* the in-memory highscore table (menu_loop's local `scores`)
    diff,      \* the difficulty key chosen for the current round
    secret,    \* play_round's `secret`
    attempts,  \* play_round's `attempts`
    result,    \* the value play_round returned (menu_loop's `attempts`)
    out,       \* what the last guess printed: direction, proximity, the secret if revealed
    last,      \* the last store operation: its arguments, what it returned, the state before it
    base,      \* the table as load_highscores created it (history of the table object)
    passed,    \* per difficulty name, the attempts values passed to update_highscore on this table
    rounds,    \* rounds started so far (bounded by MaxRounds)
    accepted,  \* the guesses input_int has returned in the current round
    pre,       \* the table and the file as they were when the current round started
    line,      \* the last line typed at the guess prompt on show
    aborted    \* the prompt at which this run met end-of-input or an interrupt ("" if none)

vars ==
    <<pc, file, scores, diff, secret, attempts, result, out, last, base, passed, rounds,
      accepted, pre, line, aborted>>

-----------------------------------------------------------------------------
(* Bounds of the model *)

\* secrets of the whole-program specification are drawn from 1..MaxInput, the integers
\* typed as guesses from 0..MaxInput + 1
MaxInput == 2
\* rounds played in one behaviour of the whole-program specification
MaxRounds == 1
\* the largest attempts value the store-level specification passes to update_highscore
MaxArg == 2
\* the forfeit sentinel, 10**9 in the source (line 172, 243), scaled; the attempts
\* counter of a round without budget is capped by it
FORFEIT == 12

(* Program constants *)
LOW == 1
HIGH == 100

-----------------------------------------------------------------------------
(* Python values and JSON values.  A value is a tagged record; v is the    *)
(* integer it compares as (bool is a subclass of int: True compares as 1). *)

PyNone == [t |-> "None", v |-> 0]
PyInt(n) == [t |-> "int", v |-> n]
PyTrue == [t |-> "bool", v |-> 1]
PyFalse == [t |-> "bool", v |-> 0]
PyFloat == [t |-> "float", v |-> 0]
PyStr == [t |-> "str", v |-> 0]
PyList == [t |-> "list", v |-> 0]

JAbsent == [t |-> "absent", v |-> 0]    \* the object has no such member
JNull == [t |-> "null", v |-> 0]
JNum(n) == [t |-> "number", v |-> n]    \* an integer literal
JReal == [t |-> "real", v |-> 0]        \* a literal with a fraction or exponent
JStr == [t |-> "string", v |-> 0]
JTrue == [t |-> "true", v |-> 0]
JFalse == [t |-> "false", v |-> 0]
JArr == [t |-> "array", v |-> 0]

\* DIFFICULTIES, lines 21-25
DiffKeys == {"E", "N", "H"}

DIFFICULTIES ==
    [k \in DiffKeys |->
        CASE k = "E" -> [name |-> "Easy", max_attempts |-> PyNone]
          [] k = "N" -> [name |-> "Normal", max_attempts |-> PyInt(10)]
          [] k = "H" -> [name |-> "Hard", max_attempts |-> PyInt(7)]]

Names == {DIFFICULTIES[k].name : k \in DiffKeys}

\* the member names a highscore file of the model can hold: the three names and an unknown one
AllKeys == Names \cup {"Other"}

\* line 100: {d["name"]: None for d in DIFFICULTIES.values()}
DefaultScores == [n \in Names |-> PyNone]

\* json.load's conversion of one JSON value
PyOfJson(j) ==
    CASE j.t = "null" -> PyNone
      [] j.t = "number" -> PyInt(j.v)
      [] j.t = "real" -> PyFloat
      [] j.t = "string" -> PyStr
      [] j.t = "true" -> PyTrue
      [] j.t = "false" -> PyFalse
      [] j.t = "array" -> PyList
      [] OTHER -> PyNone

\* json.dump's conversion of one value of the table
JsonOfPy(x) ==
    CASE x.t = "None" -> JNull
      [] x.t = "int" -> JNum(x.v)
      [] x.t = "bool" -> (IF x.v = 1 THEN JTrue ELSE JFalse)
      [] x.t = "float" -> JReal
      [] x.t = "str" -> JStr
      [] OTHER -> JArr

\* data.get(key): None when the object has no such member
DictGet(obj, key) == IF obj[key].t = "absent" THEN PyNone ELSE PyOfJson(obj[key])

\* isinstance(x, int), line 108: true of int and of bool
IsInstanceInt(x) == x.t \in {"int", "bool"}

-----------------------------------------------------------------------------
(* The highscore file *)

NoMembers == [k \in AllKeys |-> JAbsent]

FileMissing == [kind |-> "missing", obj |-> NoMembers]   \* os.path.exists is false
FileLocked == [kind |-> "locked", obj |-> NoMembers]     \* open() raises OSError (a directory, no permission)
FileBinary == [kind |-> "binary", obj |-> NoMembers]     \* bytes that are not UTF-8
FileGarbage == [kind |-> "garbage", obj |-> NoMembers]   \* text that is not JSON (empty, truncated)
FileScalar == [kind |-> "scalar", obj |-> NoMembers]     \* valid JSON, top level not an object
FileObject(o) == [kind |-> "object", obj |-> o]

\* load_highscores, lines 94-113: the table it returns, or the exception that leaves it
load_highscores(f) ==
    CASE f.kind = "missing" -> [exc |-> "", scores |-> DefaultScores]              \* 101-102
      [] f.kind = "locked" -> [exc |-> "", scores |-> DefaultScores]               \* 104, 110
      [] f.kind = "binary" -> [exc |-> "UnicodeDecodeError", scores |-> DefaultScores]  \* 105
      [] f.kind = "garbage" -> [exc |-> "", scores |-> DefaultScores]              \* 105, 110
      [] f.kind = "scalar" -> [exc |-> "AttributeError", scores |-> DefaultScores] \* 108
      [] OTHER -> [exc |-> "", scores |->
                      [n \in Names |-> IF IsInstanceInt(DictGet(f.obj, n))
                                       THEN DictGet(f.obj, n) ELSE PyNone]]        \* 107-109

\* the counts written as JSON strings instead of numbers
DumpStringly(s) ==
    FileObject([k \in AllKeys |-> IF k \in Names
                                  THEN (IF s[k] = PyNone THEN JNull ELSE JStr)
                                  ELSE JAbsent])

\* json.dump(scores, f, indent=2), line 120
Dump(s) == FileObject([k \in AllKeys |-> IF k \in Names THEN JsonOfPy(s[k]) ELSE JAbsent])

\* the outcomes of writing the file: written, open() refused, truncated and then failed
IoOutcomes == {"ok", "denied", "partial"}

\* the except clause left out: the OSError of a failed write leaves the function
save_highscores_raises(f, s, io) ==
    CASE f.kind = "locked" \/ io = "denied" -> [file |-> f, ret |-> PyNone, exc |-> "OSError"]
      [] io = "partial" -> [file |-> FileGarbage, ret |-> PyNone, exc |-> "OSError"]
      [] OTHER -> [file |-> Dump(s), ret |-> PyNone, exc |-> ""]

\* save_highscores, lines 116-123: the file it leaves and what it returns.
\* open(.., "w") truncates before anything is written; an OSError of open, write or
\* close is swallowed (121-123); the function has no return statement.
save_highscores(f, s, io) ==
    CASE f.kind = "locked" \/ io = "denied" -> [file |-> f, ret |-> PyNone, exc |-> ""]
      [] io = "partial" -> [file |-> FileGarbage, ret |-> PyNone, exc |-> ""]
      [] OTHER -> [file |-> Dump(s), ret |-> PyNone, exc |-> ""]

\* whether the write reached the disk whole
SaveSucceeds(f, io) == f.kind # "locked" /\ io = "ok"

\* the comparison turned round: the entry is replaced when the new count is worse
update_highscore_keepsWorst(s, f, name, a, io) ==
    LET best == s[name]
        sv == save_highscores(f, [s EXCEPT ![name] = PyInt(a)], io) IN
    IF best.t = "None" \/ a > best.v
    THEN [scores |-> [s EXCEPT ![name] = PyInt(a)], file |-> sv.file,
          ret |-> IF sv.exc = "" THEN PyTrue ELSE PyNone, saved |-> TRUE,
          saveRet |-> sv.ret, exc |-> sv.exc]
    ELSE [scores |-> s, file |-> f, ret |-> PyFalse, saved |-> FALSE,
          saveRet |-> PyNone, exc |-> ""]

\* the comparison made non-strict: a tie counts as a new record
update_highscore_tieRecords(s, f, name, a, io) ==
    LET best == s[name]
        sv == save_highscores(f, [s EXCEPT ![name] = PyInt(a)], io) IN
    IF best.t = "None" \/ a <= best.v
    THEN [scores |-> [s EXCEPT ![name] = PyInt(a)], file |-> sv.file,
          ret |-> IF sv.exc = "" THEN PyTrue ELSE PyNone, saved |-> TRUE,
          saveRet |-> sv.ret, exc |-> sv.exc]
    ELSE [scores |-> s, file |-> f, ret |-> PyFalse, saved |-> FALSE,
          saveRet |-> PyNone, exc |-> ""]

\* update_highscore, lines 126-138: the table and file it leaves, what it returns,
\* whether it called save_highscores and what that returned or raised
update_highscore(s, f, name, a, io) ==
    LET best == s[name]
        sv == save_highscores(f, [s EXCEPT ![name] = PyInt(a)], io) IN
    IF best.t = "None" \/ a < best.v
    THEN [scores |-> [s EXCEPT ![name] = PyInt(a)], file |-> sv.file,
          ret |-> IF sv.exc = "" THEN PyTrue ELSE PyNone, saved |-> TRUE,
          saveRet |-> sv.ret, exc |-> sv.exc]
    ELSE [scores |-> s, file |-> f, ret |-> PyFalse, saved |-> FALSE,
          saveRet |-> PyNone, exc |-> ""]

\* the removal left out: the reset reports success and the file stays
reset_highscores_keepsFile(f, confirm, rmok) ==
    IF confirm = "Y" THEN [file |-> f, ok |-> TRUE] ELSE [file |-> f, ok |-> FALSE]

\* reset_highscores, lines 206-218: confirm is the answer to "Are you sure?",
\* rmok whether os.remove succeeds
reset_highscores(f, confirm, rmok) ==
    IF confirm = "Y"
    THEN IF f.kind # "missing"
         THEN (IF rmok THEN [file |-> FileMissing, ok |-> TRUE] ELSE [file |-> f, ok |-> FALSE])
         ELSE [file |-> f, ok |-> TRUE]
    ELSE [file |-> f, ok |-> FALSE]

-----------------------------------------------------------------------------
(* play_round, lines 156-193 *)

Abs(x) == IF x < 0 THEN -x ELSE x

\* the hint with the comparison turned round
DirectionSwapped(sec, guess) == IF guess > sec THEN "Too Low" ELSE "Too High"

\* lines 181-184: the hint printed after a wrong guess
Direction(sec, guess) == IF guess < sec THEN "Too Low" ELSE "Too High"

\* the proximity hint with the first boundary exclusive
ProximityStrictFive(sec, guess) ==
    LET d == Abs(sec - guess) IN
    IF d < 5 THEN "Very close" ELSE IF d <= 10 THEN "Getting warm" ELSE "Cold"

\* lines 187-193
Proximity(sec, guess) ==
    LET d == Abs(sec - guess) IN
    IF d <= 5 THEN "Very close" ELSE IF d <= 10 THEN "Getting warm" ELSE "Cold"

\* the budget check never satisfied
OutOfAttemptsNever(max, n) == FALSE

\* the budget check satisfied one guess early
OutOfAttemptsEarly(max, n) == max.t # "None" /\ max.v - n <= 1

\* the budget check with the boundary moved: one guess too many is allowed
OutOfAttemptsOffByOne(max, n) == max.t # "None" /\ max.v - n < 0

\* line 166-168: a budget exists and remaining <= 0
OutOfAttempts(max, n) == max.t # "None" /\ max.v - n <= 0

NoOutput == [dir |-> "", prox |-> "", reveals |-> 0]

\* a line typed at a prompt: text that int() parses to v, or text it rejects
IntLine(n) == [t |-> "int", v |-> n]
TextLine == [t |-> "text", v |-> 0]
NoLine == [t |-> "none", v |-> 0]

\* the range check left out: any integer is returned
input_int_anyInteger(raw, min_value, max_value) ==
    [accepted |-> raw.t = "int", value |-> raw.v]

\* input_int, lines 72-91, on one line of input: whether it returns (and what), or
\* prints a message and prompts again (ValueError 85-87, out of range 88-90)
input_int(raw, min_value, max_value) ==
    [accepted |-> raw.t = "int" /\ min_value <= raw.v /\ raw.v <= max_value, value |-> raw.v]

\* the sentinel itself taken for a win
IsWinOrSentinel(res) == res <= FORFEIT

\* line 243: the result is not the sentinel
IsWin(res) == res < FORFEIT

\* the record of a store operation kept in `last`: the operation, its arguments, what
\* it returned (ret) or raised (exc), whether it called save_highscores (saved) and what
\* that returned (saveRet), whether its file operation succeeded (ok), the kind of file
\* it found (preKind), and where the file content now on disk comes from (disk):
\* "saved" a whole write of the table, "reset" a removal, "" anything else
NoOp ==
    [op |-> "none", name |-> "", a |-> 0, ret |-> PyNone, saveRet |-> PyNone, exc |-> "",
     ok |-> FALSE, saved |-> FALSE, confirm |-> "", preKind |-> "", disk |-> ""]

NoPassed == [n \in Names |-> {}]

\* the provenance of the file after a write with outcome io on file f
DiskAfterSave(f, io) ==
    IF SaveSucceeds(f, io) THEN "saved"
    ELSE IF f.kind = "locked" \/ io = "denied" THEN last.disk ELSE ""

LoadOp(r) ==
    [NoOp EXCEPT !.op = "load", !.exc = r.exc, !.ok = (r.exc = ""), !.preKind = file.kind,
                 !.disk = last.disk]

SaveOp(io, r) ==
    [NoOp EXCEPT !.op = "save", !.ok = SaveSucceeds(file, io), !.preKind = file.kind,
                 !.ret = r.ret, !.saveRet = r.ret, !.exc = r.exc, !.saved = TRUE,
                 !.disk = DiskAfterSave(file, io)]

UpdateOp(name, a, io, r) ==
    [NoOp EXCEPT !.op = "update", !.name = name, !.a = a, !.ret = r.ret,
                 !.saveRet = r.saveRet, !.exc = r.exc, !.saved = r.saved,
                 !.ok = (r.saved /\ SaveSucceeds(file, io)), !.preKind = file.kind,
                 !.disk = IF r.saved THEN DiskAfterSave(file, io) ELSE last.disk]

ResetOp(confirm, r) ==
    [NoOp EXCEPT !.op = "reset", !.confirm = confirm, !.ok = r.ok, !.preKind = file.kind,
                 !.disk = IF r.ok THEN "reset" ELSE last.disk]

-----------------------------------------------------------------------------
(* menu_loop, lines 221-267, with the round it runs *)

roundVars == <<diff, secret, attempts, result, out, rounds, accepted, pre>>
storeVars == <<file, scores, last, base, passed>>

\* no round is being played: play_round's locals and what it printed are gone
ForgetRound ==
    /\ diff' = "E" /\ secret' = 0 /\ attempts' = 0 /\ result' = 0
    /\ out' = NoOutput /\ accepted' = 0 /\ line' = NoLine

\* line 223 (and a later launch of the program): scores = load_highscores(); a new
\* process holds nothing of an earlier round
Start ==
    /\ pc \in {"off", "exited"}
    /\ LET r == load_highscores(file) IN
        /\ last' = LoadOp(r)
        /\ IF r.exc = ""
           THEN pc' = "menu" /\ scores' = r.scores /\ base' = r.scores /\ passed' = NoPassed
           ELSE pc' = "crashed" /\ UNCHANGED <<scores, base, passed>>
    /\ ForgetRound
    /\ pre' = [scores |-> scores', file |-> file]
    /\ aborted' = ""
    /\ UNCHANGED <<file, rounds>>

\* choice "1", lines 237-242, and play_round's lines 161-162
Play(k, sec) ==
    /\ pc = "menu"
    /\ rounds < MaxRounds
    /\ diff' = k
    /\ secret' = sec
    /\ attempts' = 0
    /\ result' = 0
    /\ out' = NoOutput
    /\ rounds' = rounds + 1
    /\ accepted' = 0
    /\ pre' = [scores |-> scores, file |-> file]
    /\ pc' = "loop"
    /\ UNCHANGED storeVars
    /\ line' = NoLine
    /\ UNCHANGED aborted

\* lines 166-172: out of attempts, the secret is printed and the sentinel returned
LoopExhausted ==
    /\ pc = "loop"
    /\ OutOfAttempts(DIFFICULTIES[diff].max_attempts, attempts)
    /\ out' = [out EXCEPT !.reveals = @ + 1]
    /\ result' = FORFEIT
    /\ pc' = "returned"
    /\ UNCHANGED <<diff, secret, attempts, rounds, accepted, pre, storeVars>>
    /\ UNCHANGED <<line, aborted>>

\* lines 166-175: attempts remain (or there is no budget), the prompt is shown: no
\* line has been typed at it and nothing printed for it yet
LoopPrompt ==
    /\ pc = "loop"
    /\ ~OutOfAttempts(DIFFICULTIES[diff].max_attempts, attempts)
    /\ pc' = "input"
    /\ line' = NoLine
    /\ out' = [out EXCEPT !.dir = "", !.prox = ""]
    /\ UNCHANGED <<diff, secret, attempts, result, rounds, accepted, pre, storeVars, aborted>>

\* the guess compared and reported before it is counted
GuessCountedLate(g) ==
    /\ pc = "input"
    /\ attempts < FORFEIT
    /\ accepted' = accepted + 1
    /\ attempts' = attempts + 1
    /\ IF g = secret
       THEN /\ result' = attempts
            /\ out' = [out EXCEPT !.dir = "", !.prox = ""]
            /\ pc' = "returned"
       ELSE /\ result' = result
            /\ out' = [out EXCEPT !.dir = Direction(secret, g), !.prox = Proximity(secret, g)]
            /\ pc' = "loop"
    /\ UNCHANGED <<diff, secret, rounds, pre, storeVars>>
    /\ UNCHANGED aborted

\* lines 175-193: input_int has returned guess g
Guess(g) ==
    /\ pc = "input"
    /\ attempts < FORFEIT
    /\ accepted' = accepted + 1
    /\ attempts' = attempts + 1
    /\ IF g = secret
       THEN /\ result' = attempts + 1
            /\ out' = [out EXCEPT !.dir = "", !.prox = ""]
            /\ pc' = "returned"
       ELSE /\ result' = result
            /\ out' = [out EXCEPT !.dir = Direction(secret, g), !.prox = Proximity(secret, g)]
            /\ pc' = "loop"
    /\ UNCHANGED <<diff, secret, rounds, pre, storeVars>>
    /\ UNCHANGED aborted

\* line 175: one line typed at "Enter your guess (1-100): "; input_int either returns
\* it as the guess or asks again, and nothing of the round changes
InputGuess(raw) ==
    /\ pc = "input"
    /\ line' = raw
    /\ IF input_int(raw, LOW, HIGH).accepted
       THEN Guess(input_int(raw, LOW, HIGH).value)
       ELSE UNCHANGED <<pc, roundVars, storeVars, aborted>>

\* end-of-input or an interrupt at a prompt of input_choice (lines 62-66): the menu
\* (235), the difficulty (150, after choice "1") or the reset confirmation (209, after
\* choice "4"); SystemExit(0) is raised and main swallows it (272-276)
AbortChoice(prompt) ==
    /\ pc = "menu"
    /\ aborted' = prompt
    /\ pc' = "exited"
    /\ UNCHANGED <<roundVars, storeVars, line>>

\* end-of-input or an interrupt at the guess prompt of input_int (lines 78-82)
AbortGuess ==
    /\ pc = "input"
    /\ aborted' = "guess"
    /\ pc' = "exited"
    /\ UNCHANGED <<roundVars, storeVars, line>>

\* end-of-input or an interrupt at a bare input() (lines 250, 255, 260): EOFError or
\* KeyboardInterrupt is raised, which nothing catches
AbortPause ==
    /\ pc \in {"pause_round", "pause_help", "pause_scores"}
    /\ aborted' = pc
    /\ pc' = "crashed"
    /\ UNCHANGED <<roundVars, storeVars, line>>

\* lines 243-250: the round's result reaches update_highscore unless it is the sentinel;
\* an exception leaving update_highscore is caught nowhere (main catches SystemExit only)
RoundReturn(io) ==
    /\ pc = "returned"
    /\ IF IsWin(result)
       THEN LET name == DIFFICULTIES[diff].name
                r == update_highscore(scores, file, name, result, io) IN
            /\ scores' = r.scores
            /\ file' = r.file
            /\ last' = UpdateOp(name, result, io, r)
            /\ passed' = [passed EXCEPT ![name] = @ \cup {result}]
            /\ base' = base
            /\ pc' = IF r.exc = "" THEN "pause_round" ELSE "crashed"
       ELSE pc' = "pause_round" /\ UNCHANGED storeVars
    /\ UNCHANGED roundVars
    /\ line' = NoLine
    /\ UNCHANGED aborted

\* "Press Enter to return to menu...", lines 250, 255, 260
Pause ==
    /\ pc \in {"pause_round", "pause_help", "pause_scores"}
    /\ pc' = "menu"
    /\ IF pc = "pause_round"
       THEN ForgetRound /\ pre' = [scores |-> scores, file |-> file] /\ UNCHANGED rounds
       ELSE UNCHANGED <<roundVars, line>>
    /\ UNCHANGED <<storeVars, aborted>>

\* choice "2", lines 252-255
Instructions ==
    /\ pc = "menu"
    /\ pc' = "pause_help"
    /\ UNCHANGED <<roundVars, storeVars>>
    /\ UNCHANGED <<line, aborted>>

\* choice "3", lines 257-260
ShowHighscores ==
    /\ pc = "menu"
    /\ pc' = "pause_scores"
    /\ UNCHANGED <<roundVars, storeVars>>
    /\ UNCHANGED <<line, aborted>>

\* choice "4", lines 262-264: reset_highscores(), then scores = load_highscores()
MenuReset(confirm, rmok) ==
    /\ pc = "menu"
    /\ LET rs == reset_highscores(file, confirm, rmok)
           r == load_highscores(rs.file) IN
        /\ file' = rs.file
        /\ last' = ResetOp(confirm, rs)
        /\ IF r.exc = ""
           THEN pc' = "menu" /\ scores' = r.scores /\ base' = r.scores /\ passed' = NoPassed
           ELSE pc' = "crashed" /\ UNCHANGED <<scores, base, passed>>
    /\ UNCHANGED roundVars
    /\ UNCHANGED <<line, aborted>>

\* choice "5", lines 265-267
Exit ==
    /\ pc = "menu"
    /\ pc' = "exited"
    /\ UNCHANGED <<roundVars, storeVars>>
    /\ UNCHANGED <<line, aborted>>

-----------------------------------------------------------------------------
(* The store's functions called one at a time, as a caller of the module may *)

\* load_highscores()
ApiLoad ==
    /\ pc = "api"
    /\ LET r == load_highscores(file) IN
        /\ last' = LoadOp(r)
        /\ IF r.exc = ""
           THEN scores' = r.scores /\ base' = r.scores /\ passed' = NoPassed
           ELSE UNCHANGED <<scores, base, passed>>
    /\ UNCHANGED <<pc, file, roundVars>>
    /\ UNCHANGED <<line, aborted>>

\* save_highscores(scores)
ApiSave(io) ==
    /\ pc = "api"
    /\ file' = save_highscores(file, scores, io).file
    /\ last' = SaveOp(io, save_highscores(file, scores, io))
    /\ UNCHANGED <<pc, scores, base, passed, roundVars>>
    /\ UNCHANGED <<line, aborted>>

\* update_highscore(scores, name, a)
ApiUpdate(name, a, io) ==
    /\ pc = "api"
    /\ LET r == update_highscore(scores, file, name, a, io) IN
        /\ scores' = r.scores
        /\ file' = r.file
        /\ last' = UpdateOp(name, a, io, r)
    /\ passed' = [passed EXCEPT ![name] = @ \cup {a}]
    /\ UNCHANGED <<pc, base, roundVars>>
    /\ UNCHANGED <<line, aborted>>

\* reset_highscores()
ApiReset(confirm, rmok) ==
    /\ pc = "api"
    /\ file' = reset_highscores(file, confirm, rmok).file
    /\ last' = ResetOp(confirm, reset_highscores(file, confirm, rmok))
    /\ UNCHANGED <<pc, scores, base, passed, roundVars>>
    /\ UNCHANGED <<line, aborted>>

-----------------------------------------------------------------------------
(* Initial states and specifications *)

Obj(e, n, h, o) ==
    [k \in AllKeys |-> CASE k = "Easy" -> e [] k = "Normal" -> n [] k = "Hard" -> h [] OTHER -> o]

\* the files the whole-program and store-level specifications start from
InitFiles ==
    {FileMissing, FileLocked, FileBinary, FileGarbage, FileScalar,
     FileObject(Obj(JStr, JNum(4), JAbsent, JAbsent)),
     FileObject(Obj(JNum(-3), JNum(0), JTrue, JNum(1))),
     FileObject(Obj(JNum(2), JNull, JNum(7), JAbsent))}

\* the member values the load-level specification draws from
JsonValues == {JAbsent, JNull, JNum(-3), JNum(0), JNum(4), JReal, JStr, JTrue, JFalse, JArr}

AllFiles ==
    {FileMissing, FileLocked, FileBinary, FileGarbage, FileScalar}
    \cup {FileObject(Obj(e, n, h, o)) : e \in JsonValues, n \in JsonValues, h \in JsonValues,
                                        o \in {JAbsent, JNum(1)}}

InitRest ==
    /\ scores = DefaultScores
    /\ base = DefaultScores
    /\ passed = NoPassed
    /\ last = NoOp
    /\ diff = "E"
    /\ secret = 0
    /\ attempts = 0
    /\ result = 0
    /\ out = NoOutput
    /\ rounds = 0
    /\ accepted = 0
    /\ pre = [scores |-> scores, file |-> file]
    /\ line = NoLine
    /\ aborted = ""

\* the lines typed at the guess prompt: text that is no integer, and the integers from
\* one below LOW to one above top
Lines(top) == {TextLine} \cup {IntLine(n) : n \in (LOW - 1)..(top + 1)}

\* the program before it is launched
Init ==
    /\ pc = "off"
    /\ file \in InitFiles
    /\ InitRest

Next ==
    \/ Start
    \/ \E k \in DiffKeys, sec \in LOW..MaxInput : Play(k, sec)
    \/ LoopExhausted
    \/ LoopPrompt
    \/ \E raw \in Lines(MaxInput) : InputGuess(raw)
    \/ \E io \in IoOutcomes : RoundReturn(io)
    \/ Pause
    \/ Instructions
    \/ ShowHighscores
    \/ \E confirm \in {"Y", "N"}, rmok \in BOOLEAN : MenuReset(confirm, rmok)
    \/ Exit
    \/ \E prompt \in {"menu", "difficulty", "confirm"} : AbortChoice(prompt)
    \/ AbortGuess
    \/ AbortPause

Spec == Init /\ [][Next]_vars

\* the tables the store-level specification starts from: what load_highscores can
\* return (None, int or bool entries) for members drawn from TableValues
TableValues == {PyNone, PyInt(1), PyInt(MaxArg), PyInt(0), PyTrue}

\* load, save and reset called in any order on any such table and file
InitStore ==
    /\ pc = "api"
    /\ file \in InitFiles
    /\ scores \in [Names -> TableValues]
    /\ base = scores
    /\ passed = NoPassed
    /\ last = NoOp
    /\ diff = "E"
    /\ secret = 0
    /\ attempts = 0
    /\ result = 0
    /\ out = NoOutput
    /\ rounds = 0
    /\ accepted = 0
    /\ pre = [scores |-> scores, file |-> file]
    /\ line = NoLine
    /\ aborted = ""

NextStore ==
    \/ ApiLoad
    \/ \E io \in IoOutcomes : ApiSave(io)
    \/ \E confirm \in {"Y", "N"}, rmok \in BOOLEAN : ApiReset(confirm, rmok)

SpecStore == InitStore /\ [][NextStore]_vars

\* update_highscore called any number of times on a table as load_highscores made it
UpdateFiles ==
    {FileMissing,
     FileObject(Obj(JNum(-3), JNum(0), JTrue, JNum(1))),
     FileObject(Obj(JNum(2), JNull, JNum(7), JAbsent))}

InitUpdate ==
    /\ pc = "api"
    /\ file \in UpdateFiles
    /\ scores = load_highscores(file).scores
    /\ base = scores
    /\ passed = NoPassed
    /\ last = NoOp
    /\ diff = "E"
    /\ secret = 0
    /\ attempts = 0
    /\ result = 0
    /\ out = NoOutput
    /\ rounds = 0
    /\ accepted = 0
    /\ pre = [scores |-> scores, file |-> file]
    /\ line = NoLine
    /\ aborted = ""

NextUpdate == \E name \in Names, a \in 1..MaxArg, io \in IoOutcomes : ApiUpdate(name, a, io)

SpecUpdate == InitUpdate /\ [][NextUpdate]_vars

\* load_highscores on every file of AllFiles
InitLoad ==
    /\ pc = "api"
    /\ file \in AllFiles
    /\ InitRest

NextLoad == ApiLoad

SpecLoad == InitLoad /\ [][NextLoad]_vars

\* one round of play_round for every difficulty and every secret of LOW..HIGH
InitRound ==
    /\ pc = "loop"
    /\ file = FileMissing
    /\ scores = DefaultScores
    /\ base = DefaultScores
    /\ passed = NoPassed
    /\ last = NoOp
    /\ diff \in DiffKeys
    /\ secret \in LOW..HIGH
    /\ attempts = 0
    /\ result = 0
    /\ out = NoOutput
    /\ rounds = 1
    /\ accepted = 0
    /\ pre = [scores |-> scores, file |-> file]
    /\ line = NoLine
    /\ aborted = ""

NextRound ==
    \/ LoopExhausted
    \/ LoopPrompt
    \/ \E raw \in Lines(HIGH) : InputGuess(raw)

SpecRound == InitRound /\ [][NextRound]_vars

\* play_round with a player who goes on typing lines that input_int returns
InitFair ==
    /\ pc = "loop"
    /\ file = FileMissing
    /\ scores = DefaultScores
    /\ base = DefaultScores
    /\ passed = NoPassed
    /\ last = NoOp
    /\ diff \in DiffKeys
    /\ secret \in LOW..MaxInput
    /\ attempts = 0
    /\ result = 0
    /\ out = NoOutput
    /\ rounds = 1
    /\ accepted = 0
    /\ pre = [scores |-> scores, file |-> file]
    /\ line = NoLine
    /\ aborted = ""

\* line 175-176: a line that input_int returns is typed
AcceptedGuess ==
    \E raw \in Lines(MaxInput) : input_int(raw, LOW, HIGH).accepted /\ InputGuess(raw)

NextFair ==
    \/ LoopExhausted
    \/ LoopPrompt
    \/ \E raw \in Lines(MaxInput) : InputGuess(raw)

SpecFair ==
    /\ InitFair
    /\ [][NextFair]_vars
    /\ WF_vars(LoopExhausted)
    /\ WF_vars(LoopPrompt)
    /\ WF_vars(AcceptedGuess)

\* one guess prompt of play_round, lines 175-193, for every secret and every line
InitHint ==
    /\ pc = "input"
    /\ file = FileMissing
    /\ scores = DefaultScores
    /\ base = DefaultScores
    /\ passed = NoPassed
    /\ last = NoOp
    /\ diff \in DiffKeys
    /\ secret \in LOW..HIGH
    /\ attempts = 0
    /\ result = 0
    /\ out = NoOutput
    /\ rounds = 1
    /\ accepted = 0
    /\ pre = [scores |-> scores, file |-> file]
    /\ line = NoLine
    /\ aborted = ""

NextHint == \E raw \in Lines(HIGH) : InputGuess(raw)

SpecHint == InitHint /\ [][NextHint]_vars

-----------------------------------------------------------------------------
(* Properties of play_round *)

Budget == DIFFICULTIES[diff].max_attempts

\* the round ended by exhaustion: the secret was printed and the sentinel returned
Forfeited == out.reveals > 0

\* C1: with a finite budget B (Normal 10, Hard 7) a round of wrong guesses signals
\* exhaustion exactly after the B-th wrong guess: the prompt is never shown and no guess
\* is accepted or counted once attempts = B, exhaustion is never signalled while
\* attempts < B, at attempts = B the loop can only signal it, and attempts = B then.
C1_ExhaustionExactlyAtBudget ==
    Budget.t # "None" =>
        /\ attempts <= Budget.v
        /\ accepted <= Budget.v
        /\ (pc = "input" => attempts < Budget.v)
        /\ (Forfeited => result = FORFEIT /\ attempts = Budget.v /\ accepted = Budget.v)
        /\ (pc = "loop" /\ attempts = Budget.v => ENABLED LoopExhausted /\ ~ENABLED LoopPrompt)
        /\ (pc = "loop" /\ attempts < Budget.v => ENABLED LoopPrompt /\ ~ENABLED LoopExhausted)

C1_Witness ==
    /\ pc = "returned"
    /\ diff = "N"
    /\ Forfeited
    /\ accepted = 10
    /\ secret = 50

\* C2: a round that ends with a win reports the number of guesses accepted in it, the
\* winning one included; the value is at least 1 and at most the budget if there is one.
C2_WinReportsAttempts ==
    (pc = "returned" /\ ~Forfeited) =>
        /\ result = accepted
        /\ result >= 1
        /\ (Budget.t # "None" => result <= Budget.v)

C2_Witness ==
    /\ pc = "returned"
    /\ ~Forfeited
    /\ diff = "E"
    /\ secret = 50
    /\ accepted = 3
    /\ result = 3

-----------------------------------------------------------------------------
(* Properties of the highscore table in menu_loop *)

\* C3: a forfeited round is never passed to update_highscore: when menu_loop reaches the
\* pause after a round that ended by exhaustion, the table and the file are what they
\* were when the round started, and the sentinel is never among the values passed.
C3_ForfeitLeavesHighscores ==
    /\ (pc = "pause_round" /\ Forfeited) => (scores = pre.scores /\ file = pre.file)
    /\ \A n \in Names : FORFEIT \notin passed[n]

C3_Witness ==
    /\ pc = "pause_round"
    /\ Forfeited
    /\ diff = "N"
    /\ scores["Normal"] = PyNone
    /\ scores["Hard"] = PyInt(7)

MinOf(S) == CHOOSE x \in S : \A y \in S : x <= y

\* C4: update_highscore is monotonically improving: after any sequence of calls on a
\* table, an entry that began absent is absent if no value was passed for it and else
\* holds the minimum of all values passed; an entry that began present compares as the
\* minimum of what it began as and all values passed, so it never increases.
C4_StoredBestIsMinimum ==
    \A n \in Names :
        /\ (base[n] = PyNone /\ passed[n] = {}) => scores[n] = PyNone
        /\ (base[n] = PyNone /\ passed[n] # {}) => scores[n] = PyInt(MinOf(passed[n]))
        /\ base[n] # PyNone =>
              /\ scores[n] # PyNone
              /\ scores[n].v = MinOf(passed[n] \cup {base[n].v})
              /\ scores[n].v <= base[n].v

C4_Witness ==
    /\ last.op = "update"
    /\ base["Easy"] = PyNone
    /\ passed["Easy"] = {1, 2}
    /\ scores["Easy"] = PyInt(1)
    /\ last.a = 2
    /\ last.name = "Easy"

\* the entry for the name of the update just made was absent or worse than the value passed
C5_Better == scores[last'.name] = PyNone \/ last'.a < scores[last'.name].v

\* C5: update_highscore returns true exactly when the entry is absent or the value passed
\* is strictly less than it, and then sets the entry and calls save_highscores; otherwise
\* (ties included) it returns false, changes no entry and does not write the file.
C5_UpdateContract ==
    [][(last'.op = "update" /\ last' # last) =>
          /\ (last'.ret = PyTrue) <=> C5_Better
          /\ C5_Better =>
                /\ scores' = [scores EXCEPT ![last'.name] = PyInt(last'.a)]
                /\ last'.saved
          /\ ~C5_Better =>
                /\ last'.ret = PyFalse
                /\ scores' = scores
                /\ file' = file
                /\ ~last'.saved]_vars

C5_Witness ==
    /\ last.op = "update"
    /\ last.ret = PyFalse
    /\ scores[last.name] = PyInt(last.a)
    /\ passed[last.name] = {last.a}
    /\ file = FileMissing

-----------------------------------------------------------------------------
(* Properties of load_highscores, save_highscores and reset_highscores *)

\* C6: load_highscores never fails: whatever the file holds, it returns a table whose
\* keys are exactly Easy, Normal and Hard, each None or an integer.
C6_LoadNeverFails ==
    last.op = "load" =>
        /\ last.exc = ""
        /\ DOMAIN scores = Names
        /\ \A n \in Names : scores[n].t \in {"None", "int", "bool"}

\* C7: every present entry of the highscore table is a positive integer, in every
\* reachable state of the program.
C7_EntriesPositive ==
    \A n \in Names : scores[n] = PyNone \/ (scores[n].t = "int" /\ scores[n].v >= 1)

\* every entry of table s is absent or a positive integer
PositiveOrAbsent(s) == \A n \in Names : s[n] = PyNone \/ (s[n].t = "int" /\ s[n].v >= 1)

\* C8: the best score is persisted: when the file on disk is a whole write of a table of
\* positive-or-absent entries (a successful save_highscores, nothing written or removed
\* since), load_highscores returns normally a table equal to the one saved.
C8_SaveLoadRoundTrip ==
    [][(last'.op = "load" /\ last.disk = "saved" /\ PositiveOrAbsent(scores)) =>
          (last'.exc = "" /\ scores' = scores)]_vars

C8_Witness ==
    /\ last.op = "load"
    /\ last.disk = "saved"
    /\ last.preKind = "object"
    /\ pre.file = FileMissing
    /\ scores = [n \in Names |-> IF n = "Easy" THEN PyInt(1) ELSE IF n = "Hard" THEN PyInt(2) ELSE PyNone]

\* C9: after a successful reset the file is gone and a load that follows it (nothing
\* written in between) returns all entries absent, whatever the file and the table held
\* before; a confirmed reset of a file that does not exist succeeds and changes nothing.
C9_LoadAfterResetIsEmpty ==
    /\ (last.op = "load" /\ last.disk = "reset") => (last.exc = "" /\ scores = DefaultScores)
    /\ (last.op = "reset" /\ last.ok) => file = FileMissing
    /\ (last.op = "reset" /\ last.confirm = "Y" /\ last.preKind = "missing") =>
          (last.ok /\ file = FileMissing)

C9_Witness ==
    /\ last.op = "load"
    /\ last.disk = "reset"
    /\ pre.file = FileObject(Obj(JNum(2), JNull, JNum(7), JAbsent))
    /\ pre.scores["Normal"] = PyInt(1)
    /\ scores = DefaultScores

\* C10 as claimed: a save that fails reports false and one that succeeds reports true.
C10_SaveReportsBoolean ==
    (last.op = "update" /\ last.saved) =>
        last.saveRet = (IF last.ok THEN PyTrue ELSE PyFalse)

\* C10, amended: save_highscores never propagates a failure: a failed write is swallowed,
\* save_highscores returns None whether the write succeeded or not, update_highscore still
\* sets the entry and reports the new record, and menu_loop goes on to the pause and the
\* menu (it ends with an exception only if the user aborts at the pause).
C10_SaveFailureSwallowed ==
    /\ (last.op = "update" /\ last.saved) => last.saveRet = PyNone
    /\ (last.op = "update" /\ last.saved /\ ~last.ok) =>
          /\ last.exc = ""
          /\ last.ret = PyTrue
          /\ scores[last.name] = PyInt(last.a)
          /\ (pc = "crashed" => aborted # "")
          /\ (pc = "pause_round" => ENABLED Pause)

C10_Witness ==
    /\ last.op = "update"
    /\ last.saved
    /\ ~last.ok
    /\ last.ret = PyTrue
    /\ file = FileGarbage
    /\ pc = "menu"

\* C11: the highscore file is written atomically: a call of save_highscores leaves on
\* disk either the whole new table or the content it found, never anything else.
C11_WriteIsAtomic ==
    [][(last'.op = "update" /\ last'.saved /\ last' # last) =>
          (file' = file \/ file' = Dump(scores'))]_vars

-----------------------------------------------------------------------------
(* Properties of the prompts *)

\* C12: end-of-input or an interrupt at any prompt (menu, difficulty, guess, reset
\* confirmation, "Press Enter" pause) ends the program cleanly with a success status:
\* no exception escapes.
C12_AbortExitsCleanly == aborted # "" => pc = "exited"

-----------------------------------------------------------------------------
(* Properties of the hints *)

\* C13: after an accepted guess g, "Too Low" is printed if and only if g < secret and
\* "Too High" if and only if g > secret; neither is printed when g = secret.
C13_DirectionFeedback ==
    (pc \in {"loop", "returned"} /\ line.t = "int") =>
        /\ (out.dir = "Too Low" <=> line.v < secret)
        /\ (out.dir = "Too High" <=> line.v > secret)
        /\ (line.v = secret => out.dir = "" /\ pc = "returned")

C13_Witness ==
    /\ pc = "loop"
    /\ secret = 70
    /\ line = IntLine(30)
    /\ out.dir = "Too Low"

\* C14: after a wrong guess at distance d = |g - secret| exactly one proximity hint is
\* printed: "Very close" iff d <= 5, "Getting warm" iff 6 <= d <= 10, "Cold" iff d >= 11.
C14_ProximityClasses ==
    (pc = "loop" /\ line.t = "int") =>
        LET d == Abs(line.v - secret) IN
        /\ d >= 1
        /\ out.prox \in {"Very close", "Getting warm", "Cold"}
        /\ (out.prox = "Very close" <=> d <= 5)
        /\ (out.prox = "Getting warm" <=> (6 <= d /\ d <= 10))
        /\ (out.prox = "Cold" <=> d >= 11)

C14_Witness ==
    /\ pc = "loop"
    /\ secret = 50
    /\ line = IntLine(45)
    /\ out.prox = "Very close"

-----------------------------------------------------------------------------
(* Properties of the attempts counter *)

\* C15: attempts starts at 0 and is incremented exactly once per accepted guess: a line
\* that is not an integer or lies outside 1..100 is asked again and changes neither
\* attempts (so no budget is used) nor the feedback printed, and only values of 1..100
\* reach the comparison with the secret.
C15_OnlyAcceptedGuessesCount ==
    /\ [](attempts = accepted)
    /\ []((pc \in {"loop", "returned"} /\ line.t # "none") =>
             (line.t = "int" /\ line.v \in LOW..HIGH))
    /\ [][(pc = "input" /\ pc' \in {"input", "loop", "returned"}) =>
             IF line'.t = "int" /\ line'.v \in LOW..HIGH
             THEN attempts' = attempts + 1 /\ pc' # "input"
             ELSE attempts' = attempts /\ out' = out /\ result' = result /\ pc' = "input"]_vars

C15_Witness ==
    /\ pc = "input"
    /\ line = IntLine(HIGH + 1)
    /\ attempts = 2
    /\ accepted = 2
    /\ out = NoOutput

-----------------------------------------------------------------------------
(* Properties of the reveal *)

\* C16: the secret is never printed while a round is in progress: it is printed only
\* where a budget exists and attempts >= budget, when play_round returns the forfeit,
\* and at most once in a round.
C16_RevealOnlyOnExhaustion ==
    /\ out.reveals <= 1
    /\ (pc \in {"loop", "input"} => out.reveals = 0)
    /\ (out.reveals > 0 =>
          /\ Budget.t # "None"
          /\ attempts >= Budget.v
          /\ result = FORFEIT)

C16_Witness ==
    /\ pc = "returned"
    /\ diff = "H"
    /\ out.reveals = 1
    /\ attempts = 7
    /\ line = IntLine(HIGH)

-----------------------------------------------------------------------------
(* Properties of the reset *)

\* C17: "Reset High Scores" answered N leaves the highscore file and the table in memory
\* as they were, in every state of menu_loop, also after a save that failed.
C17_CancelledResetChangesNothing ==
    [][(last'.op = "reset" /\ last'.confirm = "N" /\ last' # last) =>
          (file' = file /\ scores' = scores)]_vars

-----------------------------------------------------------------------------
(* Properties of the forfeit sentinel *)

\* C18: every won round is passed to update_highscore with its attempt count, on every
\* difficulty: no round is won with a count that reaches the forfeit sentinel, so at the
\* pause after a won round the count is among the values passed for its difficulty.
C18_EveryWinIsRecorded ==
    /\ (pc = "returned" /\ ~Forfeited) => result < FORFEIT
    /\ (pc = "pause_round" /\ ~Forfeited) => attempts \in passed[DIFFICULTIES[diff].name]

-----------------------------------------------------------------------------
(* Termination of play_round *)

\* C19: a round with a finite budget B always ends, with a win or the forfeit, after at
\* most B accepted guesses, provided the player goes on supplying accepted guesses; a
\* round without budget (Easy) ends only by the secret being guessed.
C19_BudgetedRoundTerminates ==
    /\ (Budget.t # "None" => <>(pc = "returned"))
    /\ [](Budget.t # "None" => accepted <= Budget.v)
    /\ []((pc = "returned" /\ Budget.t # "None") => (Forfeited \/ result = accepted))
    /\ []((pc = "returned" /\ Budget.t = "None") => (~Forfeited /\ line = IntLine(secret)))

C19_Witness ==
    /\ pc = "returned"
    /\ diff = "N"
    /\ ~Forfeited
    /\ accepted = 10
    /\ result = 10
====
